---- MODULE Spec2Model ----
(***************************************************************************)
(* Reservation engine of the voice agent: the in-memory store of db.py     *)
(* (Database with use_mock = True) and the tool surface of tools.py        *)
(* (ReservationTools), one instance per call, all sharing the one store.   *)
(*                                                                         *)
(* Values.  A user id "user_<n>" and an appointment id "appt_<n>" are the  *)
(* number n (0: no such id / Python None).  Wall-clock times are seconds   *)
(* since midnight of day 0 in the server's zone, which is taken to be UTC. *)
(* An ISO string is the record [fmt, t]: fmt says how the text is written, *)
(* t the wall-clock it spells:                                             *)
(*    "sec"  YYYY-MM-DDTHH:MM:SS   (what strftime in db.py produces)       *)
(*    "min"  YYYY-MM-DDTHH:MM      (same instant, different text)          *)
(*    "Z"    YYYY-MM-DDTHH:MM:SSZ  (offset-aware)                          *)
(*    "bad"  text datetime.fromisoformat rejects                           *)
(* Two strings are equal iff the records are.  A phone number is the       *)
(* sequence of its characters.  Appointment details are                    *)
(* [guests, text]: the "Guests: n. " annotations in front (outermost       *)
(* first) and the free text behind them.                                   *)
(***************************************************************************)
EXTENDS Integers, Sequences, FiniteSets, TLC

VARIABLES
    users,             \* db.users: sequence of guest records
    appointments,      \* db.appointments: sequence of appointment records
    user_id,           \* per call: ReservationTools._user_id (0 = None)
    session_bookings,  \* per call: _session_bookings, references to stored appointments
    now,               \* the server clock, datetime.now()
    last,              \* the latest tool call: which tool, and how it ended
    created,           \* per stored appointment: the call that created it
    pc,                \* per call: the tool call in flight between two storage calls
    call               \* per call: the entrypoint of main.py after the greeting

vars == <<users, appointments, user_id, session_bookings, now, last, created, pc, call>>

----------------------------------------------------------------------------
(* Bounds of the model *)

MaxAppts == 2
Sessions == {1, 2}

----------------------------------------------------------------------------
(* Time and ISO strings *)

SecPerHour == 60 * 60
SecPerDay == 24 * SecPerHour
HM(day, h, m) == day * SecPerDay + h * SecPerHour + m * 60

Iso(fmt, t) == [fmt |-> fmt, t |-> t]
NoTime == [fmt |-> "None", t |-> 0]

\* datetime.fromisoformat(s.replace('Z', '+00:00')) succeeds
Parses(s) == s.fmt \in {"sec", "min", "Z"}
\* the parsed datetime carries a tzinfo
Aware(s) == s.fmt = "Z"
\* dt.timestamp(), on the server's wall-clock scale
Timestamp(s) == s.t
\* dt.hour
HourOf(t) == (t \div SecPerHour) % 24
\* dt.date(), as a day number
DateOf(t) == t \div SecPerDay
\* slot_time.strftime("%Y-%m-%dT%H:%M:%S")
Strftime(t) == Iso("sec", t)

Max2(a, b) == IF a >= b THEN a ELSE b
MinOf(S) == CHOOSE x \in S : \A y \in S : x <= y

----------------------------------------------------------------------------
(* Phone numbers *)

Digits == {"0", "1", "2", "3", "4", "5", "6", "7", "8", "9"}

\* ''.join(filter(str.isdigit, contact_number))
DigitsOf(contact_number) == SelectSeq(contact_number, LAMBDA c : c \in Digits)

PhoneLen == 10

\* digits[:10]: the first ten digits kept
FirstTen(digits) == SubSeq(digits, 1, PhoneLen)

\* digits[-10:]
LastTen(digits) == SubSeq(digits, Len(digits) - PhoneLen + 1, Len(digits))

None == "None"
NoPhone == <<>>

PhoneDashed == <<"5","5","5","-","1","2","3","-","4","5","6","7">>
PhonePlain == <<"5","5","5","1","2","3","4","5","6","7">>
PhoneCountry == <<"+","1"," ","5","5","5","1","2","3","4","5","6","7">>
PhoneOther == <<"5","5","5","1","2","3","4","5","6","8">>
PhoneShort == <<"5","5","5","-","1","2","3","4">>

----------------------------------------------------------------------------
(* Database (mock store) *)

opening_hour == 10
closing_hour == 22
ClockSkew == 120

\* get_or_create_user without its lookup loop: every call appends
GetOrCreateUserNoLookup(us, contact_number, name) ==
    [users |-> Append(us, [id |-> Len(us) + 1,
                           contact_number |-> contact_number,
                           name |-> IF name # None THEN name ELSE "Unknown"]),
     user |-> Len(us) + 1]

\* get_or_create_user that never writes the name of a guest it finds
GetOrCreateUserKeepName(us, contact_number, name) ==
    LET hits == {i \in 1..Len(us) : us[i].contact_number = contact_number}
    IN  IF hits # {}
        THEN [users |-> us, user |-> MinOf(hits)]
        ELSE [users |-> Append(us, [id |-> Len(us) + 1,
                                    contact_number |-> contact_number,
                                    name |-> IF name # None THEN name ELSE "Unknown"]),
              user |-> Len(us) + 1]

\* db.get_or_create_user: the stored record found or appended; `user` is the
\* position of the returned dict in db.users (the dict itself, not a copy).
GetOrCreateUser(us, contact_number, name) ==
    LET hits == {i \in 1..Len(us) : us[i].contact_number = contact_number}
    IN  IF hits # {}
        THEN LET i == MinOf(hits)
             IN  [users |-> IF name # None THEN [us EXCEPT ![i].name = name] ELSE us,
                  user |-> i]
        ELSE [users |-> Append(us, [id |-> Len(us) + 1,
                                    contact_number |-> contact_number,
                                    name |-> IF name # None THEN name ELSE "Unknown"]),
              user |-> Len(us) + 1]

\* f"Guests: {num_people}. {details}"
GuestsPrefix(num_people, details) ==
    [guests |-> <<num_people>> \o details.guests, text |-> details.text]

\* db.create_appointment
CreateAppointment(appts, uid, start_time, num_people, details) ==
    Append(appts, [id |-> Len(appts) + 1,
                   user_id |-> uid,
                   start_time |-> start_time,
                   status |-> "booked",
                   num_people |-> num_people,
                   details |-> GuestsPrefix(num_people, details)])

\* get_user_appointments without the user_id filter
GetUserAppointmentsOfAll(appts, uid) ==
    SelectSeq(appts, LAMBDA a : a.status # "cancelled")

\* db.get_user_appointments
GetUserAppointments(appts, uid) ==
    SelectSeq(appts, LAMBDA a : a.user_id = uid /\ a.status # "cancelled")

\* cancel_appointment that reports success without writing the status
CancelAppointmentNoWrite(appts, appointment_id) ==
    [appts |-> appts,
     ok |-> \E i \in 1..Len(appts) : appts[i].id = appointment_id]

\* cancel_appointment that flips the status: a cancelled record is booked again
CancelAppointmentToggles(appts, appointment_id) ==
    LET hits == {i \in 1..Len(appts) : appts[i].id = appointment_id}
        flipped(i) == IF appts[i].status = "booked" THEN "cancelled" ELSE "booked"
    IN  IF hits # {}
        THEN [appts |-> [appts EXCEPT ![MinOf(hits)].status = flipped(MinOf(hits))],
              ok |-> TRUE]
        ELSE [appts |-> appts, ok |-> FALSE]

\* db.cancel_appointment
CancelAppointment(appts, appointment_id) ==
    LET hits == {i \in 1..Len(appts) : appts[i].id = appointment_id}
    IN  IF hits # {}
        THEN [appts |-> [appts EXCEPT ![MinOf(hits)].status = "cancelled"], ok |-> TRUE]
        ELSE [appts |-> appts, ok |-> FALSE]

\* db.update_appointment
UpdateAppointment(appts, appointment_id, details) ==
    LET hits == {i \in 1..Len(appts) : appts[i].id = appointment_id}
    IN  IF hits # {}
        THEN [appts |-> [appts EXCEPT ![MinOf(hits)].details = details], ok |-> TRUE]
        ELSE [appts |-> appts, ok |-> FALSE]

\* the hours check with > for >=: a 22:00 start passes
LedgerConsultedLate(clock, start_time) ==
    /\ Parses(start_time)
    /\ ~(Timestamp(start_time) < clock - ClockSkew)
    /\ ~(HourOf(start_time.t) < opening_hour \/ HourOf(start_time.t) > closing_hour)

\* db.check_availability, lines 151-171: the try block falls through to the
\* ledger query (no early return False)
LedgerConsulted(clock, start_time) ==
    /\ Parses(start_time)
    /\ ~(Timestamp(start_time) < clock - ClockSkew)
    /\ ~(HourOf(start_time.t) < opening_hour \/ HourOf(start_time.t) >= closing_hour)

\* check_availability without its ledger query: no record blocks a slot
ExistingIgnored(appts, start_time) == FALSE

\* db.check_availability, lines 175-178
Existing(appts, start_time) ==
    \E i \in 1..Len(appts) :
        appts[i].start_time = start_time /\ appts[i].status = "booked"

\* db.check_availability
CheckAvailability(appts, clock, start_time) ==
    IF ~LedgerConsulted(clock, start_time) THEN FALSE ELSE ~Existing(appts, start_time)

available_hours == <<10, 14, 17, 18, 19>>
DaysAhead == 7

\* the k-th slot_time of the scan of db.get_next_available_slot
SlotTime(reference_time, k) ==
    LET day_offset == (k - 1) \div Len(available_hours)
        hour == available_hours[((k - 1) % Len(available_hours)) + 1]
    IN  (DateOf(reference_time) + day_offset) * SecPerDay + hour * SecPerHour

\* reference_time = max(dt, now) of db.get_next_available_slot
ReferenceTime(clock, from_time) ==
    Max2(IF Parses(from_time) THEN from_time.t ELSE clock, clock)

\* db.py 209: a slot in the past or the same as the reference time is skipped
SlotSkipped(slot_time, reference_time) == slot_time <= reference_time

\* the scan of db.get_next_available_slot from its k-th slot on: the first
\* slot later than reference_time that check_availability accepts, or None
RECURSIVE ScanSlots(_, _, _, _)
ScanSlots(appts, clock, reference_time, k) ==
    IF k > DaysAhead * Len(available_hours) THEN NoTime
    ELSE IF SlotSkipped(SlotTime(reference_time, k), reference_time)
         THEN ScanSlots(appts, clock, reference_time, k + 1)
    ELSE IF CheckAvailability(appts, clock, Strftime(SlotTime(reference_time, k)))
         THEN Strftime(SlotTime(reference_time, k))
    ELSE ScanSlots(appts, clock, reference_time, k + 1)

\* db.get_next_available_slot: [raised, slot]; max(dt, now) raises TypeError
\* when from_time is offset-aware (now is naive); slot = NoTime is None
GetNextAvailableSlot(appts, clock, from_time) ==
    IF Parses(from_time) /\ Aware(from_time)
    THEN [raised |-> TRUE, slot |-> NoTime]
    ELSE [raised |-> FALSE,
          slot |-> ScanSlots(appts, clock, ReferenceTime(clock, from_time), 1)]

----------------------------------------------------------------------------
(* Inputs of the tool calls *)

T19 == HM(0, 19, 0)
T22 == HM(0, 22, 0)
T10next == HM(1, 10, 0)

ClockTimes == {HM(0, 19, 1), HM(0, 19, 5)}

TimeInputs ==
    { Iso("sec", T19), Iso("min", T19), Iso("sec", T10next),
      Iso("sec", T22), Iso("Z", T22), Iso("bad", 0) }

Details(text) == [guests |-> <<>>, text |-> text]
NoDetails == Details("")
GeneralReservation == Details("General Reservation")

\* (name, contact_number) the caller of session s gives to identify_user
IdentifyInputs(s) ==
    IF s = 1
    THEN { <<"Ana", PhoneDashed>>, <<None, PhoneShort>> }
    ELSE { <<None, PhoneOther>> }

\* (start_time, num_people) asked of book_appointment
BookRequests ==
    { <<Iso("sec", T19), 2>>, <<Iso("min", T19), 4>>, <<Iso("sec", T10next), 2>>,
      <<Iso("sec", T22), 2>>, <<Iso("Z", T22), 2>>, <<Iso("bad", 0), 2>> }

\* (name, contact_number) the caller of session s gives to book_appointment
BookCallers(s) ==
    IF s = 1
    THEN { <<None, NoPhone>>, <<"Ana", PhoneCountry>> }
    ELSE { <<None, NoPhone>> }

\* (new_start_time, new_num_people, new_details) asked of modify_appointment
ModifyRequests ==
    { <<NoTime, 0, NoDetails>>,
      <<NoTime, 0, Details("Window")>>,
      <<Iso("sec", T10next), 0, NoDetails>>,
      <<Iso("sec", T19), 4, NoDetails>>,
      <<Iso("sec", T22), 0, NoDetails>>,
      <<Iso("Z", T22), 0, NoDetails>> }

ApptIds == 1..(MaxAppts + 1)

----------------------------------------------------------------------------
(* The outcome of a tool call made in the current state: the store and the  *)
(* session it leaves, and its answer: the status and reason of the last     *)
(* event it published (status "error": it returned an error text without a  *)
(* terminal event; "raised": an exception left it), the appointment it      *)
(* created (appt), the slot it suggested (next_slot) and whether it called  *)
(* check_availability (checked).                                            *)

Answer(op, status, reason) ==
    [op |-> op, status |-> status, reason |-> reason,
     appt |-> 0, next_slot |-> NoTime, checked |-> FALSE]

\* a call that returns before it writes anything
Unchanged(answer) ==
    [users |-> users, appointments |-> appointments, user_id |-> user_id,
     session_bookings |-> session_bookings, answer |-> answer]

\* ReservationTools.identify_user
identify_user(s, contact_number, name) ==
    LET digits == DigitsOf(contact_number)
        r == GetOrCreateUser(users, LastTen(digits), name)
    IN  IF Len(digits) < PhoneLen
        THEN Unchanged(Answer("identify_user", "error", "invalid_phone"))
        ELSE [Unchanged(Answer("identify_user", "completed", "none")) EXCEPT
                !.users = r.users,
                !.user_id = [user_id EXCEPT ![s] = r.users[r.user].id]]

\* tools.py 134-139 and 241-245: is_past
IsPast(clock, start_time) == Parses(start_time) /\ Timestamp(start_time) < clock

\* tools.py 142-153 and 247-257: the answer to a request for a slot that
\* check_availability refused
Refusal(op, appts, clock, start_time, conflict) ==
    LET next == GetNextAvailableSlot(appts, clock, start_time)
    IN  IF next.raised
        THEN [Answer(op, "raised", "TypeError") EXCEPT !.checked = TRUE]
        ELSE [Answer(op, "failed",
                     IF IsPast(clock, start_time) THEN "past_date" ELSE conflict)
                EXCEPT !.next_slot = next.slot, !.checked = TRUE]

\* book_appointment that resolves the caller only once the slot is accepted:
\* a refused request leaves the store and the session as they were
BookAppointmentCheckFirst(s, start_time, num_people, name, contact_number, details) ==
    LET anonymous == user_id[s] = 0
        digits == DigitsOf(contact_number)
        r == IF anonymous
             THEN GetOrCreateUser(users, LastTen(digits), name)
             ELSE [users |-> users, user |-> user_id[s]]
        uid == IF anonymous THEN r.users[r.user].id ELSE user_id[s]
    IN  IF anonymous /\ contact_number = NoPhone
        THEN Unchanged(Answer("book_appointment", "failed", "auth_required"))
        ELSE IF anonymous /\ Len(digits) < PhoneLen
        THEN Unchanged(Answer("book_appointment", "failed", "invalid_phone"))
        ELSE IF ~CheckAvailability(appointments, now, start_time)
        THEN Unchanged(Refusal("book_appointment", appointments, now, start_time,
                               "unavailable"))
        ELSE [users |-> r.users,
              appointments |-> CreateAppointment(appointments, uid, start_time,
                                                 num_people, details),
              user_id |-> [user_id EXCEPT ![s] = uid],
              session_bookings |->
                  [session_bookings EXCEPT ![s] = Append(@, Len(appointments) + 1)],
              answer |-> [Answer("book_appointment", "completed", "none") EXCEPT
                            !.appt = Len(appointments) + 1, !.checked = TRUE]]

\* ReservationTools.book_appointment
book_appointment(s, start_time, num_people, name, contact_number, details) ==
    LET anonymous == user_id[s] = 0
        digits == DigitsOf(contact_number)
        r == IF anonymous
             THEN GetOrCreateUser(users, LastTen(digits), name)
             ELSE [users |-> users, user |-> user_id[s]]
        uid == IF anonymous THEN r.users[r.user].id ELSE user_id[s]
        identified == [Unchanged(Answer("book_appointment", "none", "none")) EXCEPT
                         !.users = r.users,
                         !.user_id = [user_id EXCEPT ![s] = uid]]
    IN  IF anonymous /\ contact_number = NoPhone
        THEN Unchanged(Answer("book_appointment", "failed", "auth_required"))
        ELSE IF anonymous /\ Len(digits) < PhoneLen
        THEN Unchanged(Answer("book_appointment", "failed", "invalid_phone"))
        ELSE IF ~CheckAvailability(appointments, now, start_time)
        THEN [identified EXCEPT
                !.answer = Refusal("book_appointment", appointments, now, start_time,
                                   "unavailable")]
        ELSE [identified EXCEPT
                !.appointments = CreateAppointment(appointments, uid, start_time,
                                                   num_people, details),
                !.session_bookings =
                    [session_bookings EXCEPT ![s] = Append(@, Len(appointments) + 1)],
                !.answer = [Answer("book_appointment", "completed", "none") EXCEPT
                              !.appt = Len(appointments) + 1, !.checked = TRUE]]

\* cancel_appointment that also drops the appointment from the bookings
\* list of the session
CancelAppointmentForgets(s, appointment_id) ==
    LET r == CancelAppointment(appointments, appointment_id)
    IN  [Unchanged(IF r.ok
                   THEN Answer("cancel_appointment", "completed", "none")
                   ELSE Answer("cancel_appointment", "failed", "not_found"))
           EXCEPT !.appointments = r.appts,
                  !.session_bookings =
                      [session_bookings EXCEPT ![s] =
                          SelectSeq(@, LAMBDA b : b # appointment_id)]]

\* ReservationTools.cancel_appointment
cancel_appointment(s, appointment_id) ==
    LET r == CancelAppointment(appointments, appointment_id)
    IN  [Unchanged(IF r.ok
                   THEN Answer("cancel_appointment", "completed", "none")
                   ELSE Answer("cancel_appointment", "failed", "not_found"))
           EXCEPT !.appointments = r.appts]

\* tools.py 232: final_time
FinalTime(new_start_time, original) ==
    IF new_start_time # NoTime THEN new_start_time ELSE original.start_time

\* tools.py 230 and 233: final_people
FinalPeople(new_num_people, original) ==
    IF new_num_people # 0 THEN new_num_people ELSE original.num_people

\* tools.py 234: final_details
FinalDetails(new_details, original) ==
    IF new_details # NoDetails THEN new_details ELSE original.details

\* the availability check made on every modify
ChecksAlways(new_start_time) == TRUE

\* tools.py 237: the availability check is made for a new time only
ChecksNewTime(new_start_time) == new_start_time # NoTime

\* modify_appointment with the cancel moved in front of the availability check
ModifyLedgerCancelFirst(appts, refused, uid, appointment_id, final_time, final_people, final_details) ==
    LET cancelled == CancelAppointment(appts, appointment_id).appts
    IN  IF refused THEN cancelled
        ELSE CreateAppointment(cancelled, uid, final_time, final_people,
                               final_details)

\* tools.py 237-261: the ledger a modify_appointment that found its
\* appointment leaves behind; a refused new time returns before the cancel
ModifyLedger(appts, refused, uid, appointment_id, final_time, final_people, final_details) ==
    IF refused THEN appts
    ELSE CreateAppointment(CancelAppointment(appts, appointment_id).appts,
                           uid, final_time, final_people, final_details)

\* tools.py 222-223: the appointment modify_appointment works on (0: None)
Original(uid, appointment_id) ==
    LET appts == GetUserAppointments(appointments, uid)
        found == {i \in 1..Len(appts) : appts[i].id = appointment_id}
    IN  IF found = {} THEN 0 ELSE appts[MinOf(found)].id

\* ReservationTools.modify_appointment
modify_appointment(s, appointment_id, new_start_time, new_num_people, new_details) ==
    LET found == Original(user_id[s], appointment_id)
        original == appointments[found]
        final_time == FinalTime(new_start_time, original)
        final_people == FinalPeople(new_num_people, original)
        final_details == FinalDetails(new_details, original)
        checks == ChecksNewTime(new_start_time)
        refused == checks /\ ~CheckAvailability(appointments, now, final_time)
    IN  IF new_start_time = NoTime /\ new_num_people = 0 /\ new_details = NoDetails
        THEN Unchanged(Answer("modify_appointment", "error", "nothing_to_change"))
        ELSE IF user_id[s] = 0
        THEN Unchanged(Answer("modify_appointment", "error", "auth_required"))
        ELSE IF found = 0
        THEN Unchanged(Answer("modify_appointment", "failed", "not_found"))
        ELSE [Unchanged(IF refused
                        THEN Refusal("modify_appointment", appointments, now,
                                     final_time, "new_slot_unavailable")
                        ELSE [Answer("modify_appointment", "completed", "none") EXCEPT
                                !.appt = Len(appointments) + 1, !.checked = checks])
                EXCEPT !.appointments =
                    ModifyLedger(appointments, refused, user_id[s], appointment_id,
                                 final_time, final_people, final_details)]

\* ReservationTools.update_booking_details
update_booking_details(s, appointment_id, details) ==
    LET r == UpdateAppointment(appointments, appointment_id, details)
    IN  [Unchanged(IF r.ok
                   THEN Answer("update_booking_details", "completed", "none")
                   ELSE Answer("update_booking_details", "failed", "not_found"))
           EXCEPT !.appointments = r.appts]

\* ReservationTools.retrieve_appointments: it reads the store and writes nothing
retrieve_appointments(s) ==
    IF user_id[s] = 0
    THEN Unchanged(Answer("retrieve_appointments", "error", "auth_required"))
    ELSE Unchanged(Answer("retrieve_appointments", "completed", "none"))

\* whether the call that gave this answer published its 'started' event:
\* identify_user returns on a short number (tools.py 53-54) and
\* modify_appointment on a call that names no change (tools.py 212-213)
\* before they publish it; every other return comes after it
PublishesStarted(answer) ==
    /\ ~(answer.op = "identify_user" /\ answer.reason = "invalid_phone")
    /\ ~(answer.op = "modify_appointment" /\ answer.reason = "nothing_to_change")

\* the number of 'completed' and 'failed' events the call published
TerminalEvents(answer) == IF answer.status \in {"completed", "failed"} THEN 1 ELSE 0

\* what the entries of a bookings list show when the store holds appts: an
\* entry is the dict create_appointment returned, which is the dict the
\* store holds (tools.py 155-156, db.py 118-119)
Entries(appts, bookings) == [k \in 1..Len(bookings) |-> appts[bookings[k]]]

\* ReservationTools.get_session_data()["bookings"]
get_session_data(s) == Entries(appointments, session_bookings[s])

----------------------------------------------------------------------------
(* The calls of the sessions, one at a time: each tool call runs from its   *)
(* first line to its return before another one starts.                      *)

Idle == [at |-> "idle"]

\* main.py 72 and 232: the entrypoint reaches its wait loop in a connected
\* room with the end signal not raised and no summary sent
CallStart == [at |-> "poll", connected |-> TRUE, end_event |-> FALSE, summaries |-> 0]

Init ==
    /\ users = <<>>
    /\ appointments = <<>>
    /\ user_id = [s \in Sessions |-> 0]
    /\ session_bookings = [s \in Sessions |-> <<>>]
    /\ now = HM(0, 19, 1)
    /\ last = [op |-> "none", status |-> "none", reason |-> "none"]
    /\ created = <<>>
    /\ pc = [s \in Sessions |-> Idle]
    /\ call = [s \in Sessions |-> CallStart]

\* the clock moves on between tool calls
Tick ==
    /\ \E t \in ClockTimes : t > now /\ now' = t
    /\ last' = [op |-> "tick", status |-> "none", reason |-> "none"]
    /\ UNCHANGED <<users, appointments, user_id, session_bookings, created, pc, call>>

\* the record of a create_appointment: the session whose call made it,
\* whether that call had check_availability accept the start time first,
\* and how many appointments the store held at that check
Creation(s, checked, seen) == [by |-> s, checked |-> checked, seen |-> seen]

\* the state a tool call of session s leaves
Returns(s, outcome) ==
    /\ Len(outcome.appointments) <= MaxAppts
    /\ created' = IF outcome.answer.appt = 0 THEN created
                  ELSE Append(created, Creation(s, outcome.answer.checked,
                                                Len(appointments)))
    /\ users' = outcome.users
    /\ appointments' = outcome.appointments
    /\ user_id' = outcome.user_id
    /\ session_bookings' = outcome.session_bookings
    /\ last' = [op |-> outcome.answer.op, status |-> outcome.answer.status,
                reason |-> outcome.answer.reason]
    /\ UNCHANGED <<now, pc, call>>

IdentifyUser ==
    \E s \in Sessions : \E caller \in IdentifyInputs(s) :
        Returns(s, identify_user(s, caller[2], caller[1]))

BookAppointment ==
    \E s \in Sessions, request \in BookRequests : \E caller \in BookCallers(s) :
        Returns(s, book_appointment(s, request[1], request[2], caller[1], caller[2],
                                 GeneralReservation))

CancelAppointmentTool ==
    \E s \in Sessions, appointment_id \in ApptIds :
        Returns(s, cancel_appointment(s, appointment_id))

ModifyAppointment ==
    \E s \in Sessions, appointment_id \in ApptIds, request \in ModifyRequests :
        Returns(s, modify_appointment(s, appointment_id, request[1],
                                      request[2], request[3]))

UpdateBookingDetails ==
    \E s \in Sessions, appointment_id \in ApptIds :
        Returns(s, update_booking_details(s, appointment_id, Details("Birthday")))

Next ==
    \/ Tick
    \/ IdentifyUser
    \/ BookAppointment
    \/ CancelAppointmentTool
    \/ ModifyAppointment
    \/ UpdateBookingDetails

Spec == Init /\ [][Next]_vars

----------------------------------------------------------------------------
(* The calls of the sessions with their storage calls interleaved: a tool   *)
(* call that makes several storage calls (check_availability, then          *)
(* create_appointment; get_user_appointments, check_availability,           *)
(* cancel_appointment, create_appointment) holds its local variables in pc  *)
(* between two of them, and the other session's storage calls may fall in   *)
(* between.  The sessions are identified before they book or modify.        *)

MaxApptsConc == 3

BookTimesConc == { Iso("sec", T19), Iso("sec", T22) }

ModifyRequestsConc ==
    { <<NoTime, 0, Details("Window")>>,
      <<Iso("sec", T10next), 0, NoDetails>>,
      <<Iso("sec", T19), 0, NoDetails>> }

Others == <<users, session_bookings, now, last, call>>

\* identify_user: its one storage call
ConcIdentify(s) ==
    /\ pc[s] = Idle
    /\ \E caller \in IdentifyInputs(s) :
          LET o == identify_user(s, caller[2], caller[1])
          IN  /\ users' = o.users
              /\ user_id' = o.user_id
    /\ UNCHANGED <<appointments, session_bookings, now, last, created, pc, call>>

\* book_appointment, tools.py 132: check_availability accepts the start time
ConcBookCheck(s, start_time) ==
    /\ pc[s] = Idle
    /\ user_id[s] # 0
    /\ CheckAvailability(appointments, now, start_time)
    /\ pc' = [pc EXCEPT ![s] = [at |-> "book_create", start_time |-> start_time,
                                 seen |-> Len(appointments)]]
    /\ UNCHANGED <<appointments, user_id, created>>
    /\ UNCHANGED Others

\* book_appointment, tools.py 155-156: create_appointment and the append
ConcBookCreate(s) ==
    /\ pc[s].at = "book_create"
    /\ Len(appointments) < MaxApptsConc
    /\ appointments' = CreateAppointment(appointments, user_id[s], pc[s].start_time,
                                         2, GeneralReservation)
    /\ session_bookings' =
          [session_bookings EXCEPT ![s] = Append(@, Len(appointments) + 1)]
    /\ created' = Append(created, Creation(s, TRUE, pc[s].seen))
    /\ pc' = [pc EXCEPT ![s] = Idle]
    /\ UNCHANGED <<users, user_id, now, last, call>>

\* cancel_appointment: its one storage call
ConcCancel(s, appointment_id) ==
    /\ pc[s] = Idle
    /\ appointments' = CancelAppointment(appointments, appointment_id).appts
    /\ UNCHANGED <<user_id, created, pc>>
    /\ UNCHANGED Others

\* modify_appointment, tools.py 222-234: get_user_appointments finds the
\* original, and the final values are taken from it
ConcModifyGet(s, appointment_id, new_start_time, new_num_people, new_details) ==
    LET found == Original(user_id[s], appointment_id)
        original == appointments[found]
    IN  /\ pc[s] = Idle
        /\ user_id[s] # 0
        /\ found # 0
        /\ pc' = [pc EXCEPT ![s] =
                    [at |-> IF ChecksNewTime(new_start_time)
                            THEN "modify_check" ELSE "modify_cancel",
                     appointment_id |-> appointment_id,
                     final_time |-> FinalTime(new_start_time, original),
                     final_people |-> FinalPeople(new_num_people, original),
                     final_details |-> FinalDetails(new_details, original),
                     checked |-> FALSE,
                     seen |-> 0]]
        /\ UNCHANGED <<appointments, user_id, created>>
        /\ UNCHANGED Others

\* modify_appointment, tools.py 238-257: check_availability accepts the new
\* time, or refuses it and the call returns
ConcModifyCheck(s) ==
    /\ pc[s].at = "modify_check"
    /\ pc' = [pc EXCEPT ![s] =
                IF CheckAvailability(appointments, now, pc[s].final_time)
                THEN [pc[s] EXCEPT !.at = "modify_cancel", !.checked = TRUE,
                                   !.seen = Len(appointments)]
                ELSE Idle]
    /\ UNCHANGED <<appointments, user_id, created>>
    /\ UNCHANGED Others

\* modify_appointment, tools.py 260: cancel_appointment
ConcModifyCancel(s) ==
    /\ pc[s].at = "modify_cancel"
    /\ appointments' = CancelAppointment(appointments, pc[s].appointment_id).appts
    /\ pc' = [pc EXCEPT ![s] = [pc[s] EXCEPT !.at = "modify_create"]]
    /\ UNCHANGED <<user_id, created>>
    /\ UNCHANGED Others

\* modify_appointment, tools.py 261: create_appointment
ConcModifyCreate(s) ==
    /\ pc[s].at = "modify_create"
    /\ Len(appointments) < MaxApptsConc
    /\ appointments' = CreateAppointment(appointments, user_id[s], pc[s].final_time,
                                         pc[s].final_people, pc[s].final_details)
    /\ created' = Append(created, Creation(s, pc[s].checked, pc[s].seen))
    /\ pc' = [pc EXCEPT ![s] = Idle]
    /\ UNCHANGED user_id
    /\ UNCHANGED Others

ConcBookAppointment ==
    \E s \in Sessions :
        \/ \E start_time \in BookTimesConc : ConcBookCheck(s, start_time)
        \/ ConcBookCreate(s)

ConcModifyAppointment ==
    \E s \in Sessions :
        \/ \E appointment_id \in 1..MaxApptsConc, request \in ModifyRequestsConc :
              ConcModifyGet(s, appointment_id, request[1], request[2], request[3])
        \/ ConcModifyCheck(s)
        \/ ConcModifyCancel(s)
        \/ ConcModifyCreate(s)

NextConc ==
    \/ \E s \in Sessions : ConcIdentify(s)
    \/ ConcBookAppointment
    \/ \E s \in Sessions, appointment_id \in 1..MaxApptsConc :
          ConcCancel(s, appointment_id)
    \/ ConcModifyAppointment

SpecConc == Init /\ [][NextConc]_vars

----------------------------------------------------------------------------
(* The identification of the callers: the sessions give any of the names    *)
(* and any of the spellings of two phone numbers, to identify_user and to   *)
(* book_appointment, whether they are identified already or not.            *)

NamesGiven == {None, "Ana", "Bob"}

PhonesGiven == {PhoneDashed, PhonePlain, PhoneCountry, PhoneOther, PhoneShort}

\* (start_time, num_people) asked of book_appointment
BookRequestsIdent == { <<Iso("sec", T19), 2>>, <<Iso("sec", T22), 2>> }

IdentIdentifyUser ==
    \E s \in Sessions, name \in NamesGiven, contact_number \in PhonesGiven :
        Returns(s, identify_user(s, contact_number, name))

IdentBookAppointment ==
    \E s \in Sessions, request \in BookRequestsIdent, name \in NamesGiven :
        \E contact_number \in PhonesGiven \cup {NoPhone} :
            Returns(s, book_appointment(s, request[1], request[2], name,
                                        contact_number, GeneralReservation))

NextIdent ==
    \/ IdentIdentifyUser
    \/ IdentBookAppointment

SpecIdent == Init /\ [][NextIdent]_vars

----------------------------------------------------------------------------
(* Bookings before and after the evening slots: the calls start at 18:00,   *)
(* an hour before the 19:00 slot, and ask for slots of the evening, for one *)
(* an hour back, and for the first one of the next day.                     *)

T17 == HM(0, 17, 0)
T18 == HM(0, 18, 0)
T20 == HM(0, 20, 0)
T21 == HM(0, 21, 0)

ClockTimesSlots == {T18, HM(0, 19, 1)}

\* (start_time, num_people) asked of book_appointment
BookRequestsSlots ==
    { <<Iso("sec", T17), 2>>, <<Iso("sec", T19), 2>>, <<Iso("sec", T20), 2>>,
      <<Iso("sec", T10next), 2>> }

InitSlots ==
    /\ users = <<>>
    /\ appointments = <<>>
    /\ user_id = [s \in Sessions |-> 0]
    /\ session_bookings = [s \in Sessions |-> <<>>]
    /\ now = T18
    /\ last = [op |-> "none", status |-> "none", reason |-> "none"]
    /\ created = <<>>
    /\ pc = [s \in Sessions |-> Idle]
    /\ call = [s \in Sessions |-> CallStart]

TickSlots ==
    /\ \E t \in ClockTimesSlots : t > now /\ now' = t
    /\ last' = [op |-> "tick", status |-> "none", reason |-> "none"]
    /\ UNCHANGED <<users, appointments, user_id, session_bookings, created, pc, call>>

SlotsBookAppointment ==
    \E s \in Sessions, request \in BookRequestsSlots : \E caller \in BookCallers(s) :
        Returns(s, book_appointment(s, request[1], request[2], caller[1], caller[2],
                                    GeneralReservation))

NextSlots ==
    \/ TickSlots
    \/ IdentifyUser
    \/ SlotsBookAppointment
    \/ CancelAppointmentTool

SpecSlots == InitSlots /\ [][NextSlots]_vars

----------------------------------------------------------------------------
(* The end of the calls: the wait loop of the entrypoint (main.py 232-246)  *)
(* of each call, the end signal end_conversation raises, and the room that  *)
(* disconnects.  The entrypoint is one asyncio task: what it runs between   *)
(* two awaits is one step.  call[s].at is the await it is suspended in, or  *)
(* "poll" when it is about to test the loop condition; call[s].summaries    *)
(* counts the calls of send_summary that have returned.                     *)

\* the summary in front of every exit of the entrypoint, whatever the signal
AfterLoopSendsAlways(c) == TRUE

\* main.py 241: after the loop the summary is sent if the end signal is not set
AfterLoopSends(c) == ~c.end_event

\* main.py 241-245: from the end of the loop to the next await
AfterLoop(c) == IF AfterLoopSends(c) THEN "send_summary_final" ELSE "final_sleep"

CallStep(s, c) ==
    /\ call' = [call EXCEPT ![s] = c]
    /\ UNCHANGED <<users, appointments, user_id, session_bookings, now, last,
                   created, pc>>

\* main.py 233-238: the loop condition, the test of the end signal, and the
\* await that follows
CallPoll(s) ==
    /\ call[s].at = "poll"
    /\ CallStep(s, [call[s] EXCEPT !.at =
                      IF call[s].connected
                      THEN IF call[s].end_event THEN "send_summary_in_loop"
                                                ELSE "sleep"
                      ELSE AfterLoop(call[s])])

\* main.py 238: asyncio.sleep(0.5) returns
CallWake(s) ==
    /\ call[s].at = "sleep"
    /\ CallStep(s, [call[s] EXCEPT !.at = "poll"])

\* main.py 236-237 and 241: send_summary returns, break, the test after the loop
CallSummaryInLoop(s) ==
    /\ call[s].at = "send_summary_in_loop"
    /\ CallStep(s, [call[s] EXCEPT !.summaries = @ + 1, !.at = AfterLoop(call[s])])

\* main.py 242: send_summary returns
CallSummaryFinal(s) ==
    /\ call[s].at = "send_summary_final"
    /\ CallStep(s, [call[s] EXCEPT !.summaries = @ + 1, !.at = "final_sleep"])

\* main.py 245-246: asyncio.sleep(2) returns and the entrypoint finishes
CallFinish(s) ==
    /\ call[s].at = "final_sleep"
    /\ CallStep(s, [call[s] EXCEPT !.at = "done"])

\* ReservationTools.end_conversation: the end signal is raised
EndConversation(s) ==
    /\ call[s].at # "done"
    /\ ~call[s].end_event
    /\ CallStep(s, [call[s] EXCEPT !.end_event = TRUE])

\* the room disconnects: ctx.room.isconnected() is false from now on
Disconnect(s) ==
    /\ call[s].at # "done"
    /\ call[s].connected
    /\ CallStep(s, [call[s] EXCEPT !.connected = FALSE])

Entrypoint(s) ==
    \/ CallPoll(s)
    \/ CallWake(s)
    \/ CallSummaryInLoop(s)
    \/ CallSummaryFinal(s)
    \/ CallFinish(s)

NextCall ==
    \/ \E s \in Sessions : Entrypoint(s)
    \/ \E s \in Sessions : EndConversation(s)
    \/ \E s \in Sessions : Disconnect(s)

SpecCall == Init /\ [][NextCall]_vars

\* the entrypoint of a call is an asyncio task the event loop keeps running:
\* every await it is suspended in returns, and it goes on to its next one
SpecCallFair == SpecCall /\ \A s \in Sessions : WF_vars(Entrypoint(s))

----------------------------------------------------------------------------
(* Properties *)

Booked(appts) == {i \in 1..Len(appts) : appts[i].status = "booked"}

\* the ids of the appointments of guest uid that are not cancelled
ActiveIds(uid) ==
    {appointments[i].id : i \in {j \in 1..Len(appointments) :
        appointments[j].user_id = uid /\ appointments[j].status # "cancelled"}}

\* time strings the pure functions are probed with, around the edges of the
\* clock-skew tolerance and of the opening hours
ProbeTimes ==
    TimeInputs \cup
    { Iso(fmt, t) : fmt \in {"sec", "min", "Z", "bad"},
                    t \in { now - ClockSkew - 1, now - ClockSkew, now - 1, now,
                            HM(1, 9, 59), HM(1, 10, 0), HM(1, 14, 0),
                            HM(1, 21, 59), HM(1, 22, 0), HM(2, 0, 0) } }

\* no two 'booked' appointments store the same start_time text: the equality
\* the ledger query of check_availability tests
SlotExclusivityByText ==
    \A i, j \in Booked(appointments) :
        i # j => appointments[i].start_time # appointments[j].start_time

\* C1: whatever tool calls the sessions have made one after the other, no two
\* appointments with status 'booked' start at the same point in time.
C1_SlotExclusivity ==
    \A i, j \in Booked(appointments) :
        i # j => Timestamp(appointments[i].start_time)
                    # Timestamp(appointments[j].start_time)

\* every create that followed an accepted check_availability was applied
\* before any other create came in between: no check-then-create race so far
NoCheckCreateRace ==
    \A k \in 1..Len(created) : created[k].checked => created[k].seen = k - 1

\* C2: with the storage calls of the sessions interleaved, two 'booked'
\* appointments with the same start time arise only from a race between an
\* availability check and a create: as long as no create was applied between
\* another call's accepted check and its create, no start time is booked twice.
C2_OnlyCheckCreateRace == NoCheckCreateRace => C1_SlotExclusivity

\* C3: the guest store holds at most one guest per canonical phone number, and
\* an identify_user or an implicitly identifying book_appointment for a number
\* already known creates no record and yields the existing guest's id.
C3_GuestUniqueness ==
    /\ \A i, j \in 1..Len(users) :
          i # j => users[i].contact_number # users[j].contact_number
    /\ \A s \in Sessions :
          /\ \A caller \in IdentifyInputs(s) :
                LET o == identify_user(s, caller[2], caller[1])
                    known == {i \in 1..Len(users) :
                                users[i].contact_number = LastTen(DigitsOf(caller[2]))}
                IN  (Len(DigitsOf(caller[2])) >= PhoneLen /\ known # {}) =>
                        /\ Len(o.users) = Len(users)
                        /\ o.user_id[s] \in {users[i].id : i \in known}
          /\ \A request \in BookRequests, caller \in BookCallers(s) :
                LET o == book_appointment(s, request[1], request[2], caller[1],
                                          caller[2], GeneralReservation)
                    known == {i \in 1..Len(users) :
                                users[i].contact_number = LastTen(DigitsOf(caller[2]))}
                IN  (user_id[s] = 0 /\ Len(DigitsOf(caller[2])) >= PhoneLen
                       /\ known # {}) =>
                        /\ Len(o.users) = Len(users)
                        /\ o.user_id[s] \in {users[i].id : i \in known}

\* identify_user has resolved the number of the one guest, who was known
\* before (an appointment is stored for them)
C3_Witness ==
    /\ last.op = "identify_user" /\ last.status = "completed"
    /\ Len(users) = 1
    /\ Len(appointments) > 0

\* C4: right after a successful book_appointment for start time t,
\* check_availability(t) is false; after the cancel of a booked appointment
\* at t, check_availability(t) is true again if t still passes the future
\* and the business-hours checks.
C4_RoundTrip ==
    /\ \A s \in Sessions, request \in BookRequests :
          \A caller \in BookCallers(s) :
             LET o == book_appointment(s, request[1], request[2], caller[1],
                                       caller[2], GeneralReservation)
             IN  o.answer.status = "completed" =>
                    ~CheckAvailability(o.appointments, now, request[1])
    /\ \A s \in Sessions, i \in Booked(appointments) :
          LET o == cancel_appointment(s, appointments[i].id)
              t == appointments[i].start_time
          IN  /\ o.answer.status = "completed"
              /\ LedgerConsulted(now, t) => CheckAvailability(o.appointments, now, t)

\* an appointment has just been cancelled and its slot is available again
C4_Witness ==
    /\ last.op = "cancel_appointment" /\ last.status = "completed"
    /\ \E i \in 1..Len(appointments) :
          /\ appointments[i].status = "cancelled"
          /\ CheckAvailability(appointments, now, appointments[i].start_time)

\* C5: whatever the ledger holds, check_availability is false for a start
\* time that does not parse, that lies more than 120 seconds before the
\* current time, or whose hour is outside [10, 22); the ledger is consulted
\* only when all three checks pass.
C5_FailsClosed ==
    \A t \in ProbeTimes :
        LET unparsable == t.fmt \notin {"sec", "min", "Z"}
            stale == ~unparsable /\ t.t < now - 120
            closed == ~unparsable /\ ((t.t \div 3600) % 24 < 10
                                        \/ (t.t \div 3600) % 24 >= 22)
        IN  /\ (unparsable \/ stale \/ closed) =>
                  /\ ~CheckAvailability(appointments, now, t)
                  /\ ~CheckAvailability(<<>>, now, t)
            /\ LedgerConsulted(now, t) <=> ~(unparsable \/ stale \/ closed)

\* a booking for 19:00 has been refused as past at 19:05 although no booked
\* appointment holds a 19:00 slot
C5_Witness ==
    /\ last.op = "book_appointment" /\ last.reason = "past_date"
    /\ now = HM(0, 19, 5)
    /\ Booked(appointments) # {}
    /\ \A i \in Booked(appointments) : appointments[i].start_time.t # T19

\* every slot get_next_available_slot returns is strictly later than
\* max(from_time, now) and is accepted by check_availability in the same
\* ledger state
ReturnedSlotSound ==
    \A from_time \in ProbeTimes :
        LET r == GetNextAvailableSlot(appointments, now, from_time)
            reference == IF from_time.fmt \in {"sec", "min", "Z"} /\ from_time.t > now
                         THEN from_time.t ELSE now
        IN  (~r.raised /\ r.slot # NoTime) =>
                /\ r.slot.t > reference
                /\ CheckAvailability(appointments, now, r.slot)

\* C6: for every ledger state and every from_time, get_next_available_slot
\* returns: either no slot, or a time strictly later than max(from_time, now)
\* that check_availability accepts in the same ledger state.
C6_NextSlotSound ==
    /\ ReturnedSlotSound
    /\ \A from_time \in ProbeTimes :
          ~GetNextAvailableSlot(appointments, now, from_time).raised

\* C7: the first cancel of a booked appointment returns true and sets its
\* status to 'cancelled'; a second cancel of the same id changes nothing and
\* returns false; the cancel of an unknown id returns false and changes nothing.
C7_CancelIdempotent ==
    \A s \in Sessions, appointment_id \in ApptIds :
        LET o == cancel_appointment(s, appointment_id)
            r == CancelAppointment(appointments, appointment_id)
            known == {i \in 1..Len(appointments) :
                        appointments[i].id = appointment_id}
        IN  /\ (\E i \in known : appointments[i].status = "booked") =>
                  /\ r.ok /\ o.answer.status = "completed"
                  /\ \A i \in known : r.appts[i].status = "cancelled"
            /\ (known # {} /\ \A i \in known : appointments[i].status = "cancelled") =>
                  /\ ~r.ok /\ o.answer.status = "failed"
                  /\ r.appts = appointments
            /\ known = {} =>
                  /\ ~r.ok /\ o.answer.status = "failed"
                  /\ r.appts = appointments

\* C8: modify_appointment with only new_details, on an active appointment of
\* the session's guest, does not call check_availability, succeeds, and the
\* replacement has the start time and the party size of the original.
C8_DetailsOnlyModify ==
    \A s \in Sessions, i \in 1..Len(appointments) :
        LET o == modify_appointment(s, appointments[i].id, NoTime, 0,
                                    Details("Window"))
        IN  (user_id[s] # 0 /\ appointments[i].id \in ActiveIds(user_id[s])) =>
                /\ ~o.answer.checked
                /\ o.answer.status = "completed"
                /\ o.answer.appt \in 1..Len(o.appointments)
                /\ o.appointments[o.answer.appt].status = "booked"
                /\ o.appointments[o.answer.appt].start_time = appointments[i].start_time
                /\ o.appointments[o.answer.appt].num_people = appointments[i].num_people

\* a details-only modify has replaced an appointment for 4 people
C8_Witness ==
    /\ last.op = "modify_appointment" /\ last.status = "completed"
    /\ \E i, j \in 1..Len(appointments) :
          /\ appointments[i].status = "cancelled"
          /\ appointments[j].status = "booked"
          /\ appointments[j].details.text = "Window"
          /\ appointments[i].details.text # "Window"
          /\ appointments[j].start_time = appointments[i].start_time
          /\ appointments[j].num_people = 4

\* C9: a modify_appointment that is rejected leaves every appointment as it
\* was, creates none, and leaves the bookings list of every session as it was.
C9_RejectedModifyChangesNothing ==
    \A s \in Sessions, appointment_id \in ApptIds, request \in ModifyRequests :
        LET o == modify_appointment(s, appointment_id, request[1], request[2],
                                    request[3])
        IN  o.answer.status # "completed" =>
                /\ o.appointments = appointments
                /\ o.session_bookings = session_bookings

\* a modify to a new time has been refused while its appointment is booked
C9_Witness ==
    /\ last.op = "modify_appointment" /\ last.status = "failed"
    /\ last.reason \in {"new_slot_unavailable", "past_date"}
    /\ Booked(appointments) # {}

\* C10 as claimed: in an identified session modify_appointment fails with
\* not_found exactly when the id is not among the guest's active appointments.
C10_NotFoundExactly ==
    \A s \in Sessions, appointment_id \in ApptIds, request \in ModifyRequests :
        LET o == modify_appointment(s, appointment_id, request[1], request[2],
                                    request[3])
        IN  user_id[s] # 0 =>
                (o.answer.reason = "not_found"
                   <=> appointment_id \notin ActiveIds(user_id[s]))

\* C10: in an identified session, a modify_appointment that names at least
\* one change fails with not_found exactly when the id is not among the
\* active appointments of the session's guest: unknown, cancelled, or
\* another guest's.
C10_NotFoundWhenChangeNamed ==
    \A s \in Sessions, appointment_id \in ApptIds, request \in ModifyRequests :
        LET o == modify_appointment(s, appointment_id, request[1], request[2],
                                    request[3])
        IN  (user_id[s] # 0 /\ request # <<NoTime, 0, NoDetails>>) =>
                (o.answer.reason = "not_found"
                   <=> appointment_id \notin ActiveIds(user_id[s]))

\* a modify has been answered not_found while the other guest holds a booked
\* appointment and the guest's own one is cancelled
C10_Witness ==
    /\ last.op = "modify_appointment" /\ last.reason = "not_found"
    /\ \E i, j \in 1..Len(appointments) :
          /\ appointments[i].user_id # appointments[j].user_id
          /\ appointments[i].status = "booked"
          /\ appointments[j].status = "cancelled"

\* the canonical number of a guest record with the given contact text,
\* written out: the last ten of its digit characters
LastTenDigitsOf(contact_number) ==
    LET d == SelectSeq(contact_number, LAMBDA c : c \in Digits)
    IN  [i \in 1..10 |-> d[Len(d) - 10 + i]]

\* the positions in db.users of the guests with the canonical number of the
\* given contact text
KnownAs(contact_number) ==
    {i \in 1..Len(users) : users[i].contact_number = LastTenDigitsOf(contact_number)}

\* C11: the guest name is last-write-wins.  Resolving an existing guest with
\* a name stores that name and nothing else changes; resolving it without a
\* name leaves the store as it is; either way the session gets the existing
\* id.  A new guest gets the name given, or "Unknown" when none is given.
C11_NameLastWriteWins ==
    \A s \in Sessions, name \in NamesGiven, contact_number \in PhonesGiven :
        LET o == identify_user(s, contact_number, name)
            known == KnownAs(contact_number)
        IN  Len(DigitsOf(contact_number)) >= 10 =>
              /\ known # {} =>
                    /\ Len(o.users) = Len(users)
                    /\ \A i \in 1..Len(users) :
                          /\ o.users[i].id = users[i].id
                          /\ o.users[i].contact_number = users[i].contact_number
                          /\ o.users[i].name =
                                IF i \in known /\ name # None THEN name
                                ELSE users[i].name
                    /\ o.user_id[s] \in {users[i].id : i \in known}
              /\ known = {} =>
                    /\ Len(o.users) = Len(users) + 1
                    /\ o.users[Len(o.users)].name =
                          IF name # None THEN name ELSE "Unknown"
                    /\ o.users[Len(o.users)].contact_number
                          = LastTenDigitsOf(contact_number)
                    /\ \A i \in 1..Len(users) : o.users[i] = users[i]

\* both sessions have resolved the one guest, whose stored name was given by
\* a caller, and the last call was an identify_user
C11_Witness ==
    /\ last.op = "identify_user" /\ last.status = "completed"
    /\ Len(users) = 1
    /\ users[1].name = "Bob"
    /\ \A s \in Sessions : user_id[s] = users[1].id

\* C12: phone normalization is idempotent; for contact texts with at least
\* 10 digits the outcome of identify_user and of an anonymous
\* book_appointment depends only on the last 10 digits; a text with fewer
\* than 10 digits is rejected as an invalid phone number, no guest is created
\* or updated and the identity of the session stays as it was.
C12_PhoneNormalization ==
    \A s \in Sessions, name \in NamesGiven, p \in PhonesGiven :
        LET o == identify_user(s, p, name)
            b == book_appointment(s, Iso("sec", T19), 2, name, p, GeneralReservation)
        IN  IF Len(SelectSeq(p, LAMBDA c : c \in Digits)) >= 10
            THEN /\ Len(DigitsOf(LastTen(DigitsOf(p)))) >= PhoneLen
                 /\ LastTen(DigitsOf(LastTen(DigitsOf(p)))) = LastTen(DigitsOf(p))
                 /\ \A q \in PhonesGiven :
                       (/\ Len(SelectSeq(q, LAMBDA c : c \in Digits)) >= 10
                        /\ LastTenDigitsOf(q) = LastTenDigitsOf(p)) =>
                          /\ identify_user(s, q, name) = o
                          /\ user_id[s] = 0 =>
                                book_appointment(s, Iso("sec", T19), 2, name, q,
                                                 GeneralReservation) = b
            ELSE /\ o.answer.status = "error" /\ o.answer.reason = "invalid_phone"
                 /\ o.users = users /\ o.user_id = user_id
                 /\ user_id[s] = 0 =>
                       /\ b.answer.status = "failed"
                       /\ b.answer.reason = "invalid_phone"
                       /\ b.users = users /\ b.user_id = user_id
                       /\ b.appointments = appointments

\* a number of too few digits has just been rejected while both guests are
\* in the store, each resolved from some spelling of its number
C12_Witness ==
    /\ last.reason = "invalid_phone"
    /\ Len(users) = 2

\* C13: in a session that is not identified, a book_appointment that gives a
\* name and a valid phone number leaves the session identified as the guest
\* of that number whatever the availability check then answers; one that
\* gives neither fails with auth_required, leaves the session anonymous and
\* creates no guest and no appointment.
C13_ImplicitIdentification ==
    \A s \in Sessions, request \in BookRequests :
        user_id[s] = 0 =>
          /\ \A name \in NamesGiven \ {None}, contact_number \in PhonesGiven :
                LET o == book_appointment(s, request[1], request[2], name,
                                          contact_number, GeneralReservation)
                IN  Len(SelectSeq(contact_number, LAMBDA c : c \in Digits)) >= 10 =>
                      /\ o.user_id[s] # 0
                      /\ \E i \in 1..Len(o.users) :
                            /\ o.users[i].id = o.user_id[s]
                            /\ o.users[i].contact_number
                                  = LastTenDigitsOf(contact_number)
                      /\ o.answer.checked
          /\ LET o == book_appointment(s, request[1], request[2], None, NoPhone,
                                       GeneralReservation)
             IN  /\ o.answer.status = "failed"
                 /\ o.answer.reason = "auth_required"
                 /\ o.user_id = user_id
                 /\ o.users = users
                 /\ o.appointments = appointments
                 /\ ~o.answer.checked

\* a booking has been refused for its time, no appointment is stored, and
\* the store holds a guest: the refused call or one before it resolved them
C13_Witness ==
    /\ last.op = "book_appointment" /\ last.status = "failed"
    /\ last.reason = "unavailable"
    /\ appointments = <<>>
    /\ Len(users) = 1
    /\ \E s \in Sessions : user_id[s] # 0
    /\ \E s \in Sessions : user_id[s] = 0

\* C14: once a session is identified, no tool call changes its guest id.
C14_GuestReferenceStable ==
    [][\A s \in Sessions : user_id[s] # 0 => user_id'[s] = user_id[s]]_vars

\* the appointments that are not owned by the guest of session s (all of
\* them when s is anonymous) are in `after` exactly as they are stored now
OthersUntouched(s, after) ==
    \A i \in 1..Len(appointments) :
        appointments[i].user_id # user_id[s] => after[i] = appointments[i]

\* C15: cancel_appointment, update_booking_details and modify_appointment of
\* a session change no appointment owned by another guest, and in an
\* anonymous session they change no appointment at all.
C15_ScopedToSessionGuest ==
    \A s \in Sessions, appointment_id \in ApptIds :
        /\ OthersUntouched(s, cancel_appointment(s, appointment_id).appointments)
        /\ OthersUntouched(s, update_booking_details(s, appointment_id,
                                                     Details("Birthday")).appointments)
        /\ \A request \in ModifyRequests :
              OthersUntouched(s, modify_appointment(s, appointment_id, request[1],
                                                    request[2], request[3]).appointments)

\* modify_appointment alone is scoped to the guest of the session
ModifyScopedToSessionGuest ==
    \A s \in Sessions, appointment_id \in ApptIds, request \in ModifyRequests :
        OthersUntouched(s, modify_appointment(s, appointment_id, request[1],
                                              request[2], request[3]).appointments)

\* C16: the bookings list of a session is append-only.  A book_appointment
\* that completes appends exactly one entry, for the appointment it created,
\* to the list of its session; one that does not complete appends nothing;
\* no other tool call, of this or another session, changes any list.
C16_BookingsAppendOnly ==
    \A s \in Sessions :
        /\ \A request \in BookRequests, caller \in BookCallers(s) :
              LET o == book_appointment(s, request[1], request[2], caller[1],
                                        caller[2], GeneralReservation)
              IN  IF o.answer.status = "completed"
                  THEN /\ o.answer.appt = Len(appointments) + 1
                       /\ Len(o.appointments) = Len(appointments) + 1
                       /\ o.session_bookings =
                             [session_bookings EXCEPT
                                 ![s] = Append(session_bookings[s], o.answer.appt)]
                  ELSE o.session_bookings = session_bookings
        /\ \A caller \in IdentifyInputs(s) :
              identify_user(s, caller[2], caller[1]).session_bookings = session_bookings
        /\ \A appointment_id \in ApptIds :
              /\ cancel_appointment(s, appointment_id).session_bookings
                    = session_bookings
              /\ update_booking_details(s, appointment_id,
                                        Details("Birthday")).session_bookings
                    = session_bookings
              /\ \A request \in ModifyRequests :
                    modify_appointment(s, appointment_id, request[1], request[2],
                                       request[3]).session_bookings = session_bookings

\* an appointment has just been cancelled, and it is still in the bookings
\* list of the session of its guest
C16_Witness ==
    /\ last.op = "cancel_appointment" /\ last.status = "completed"
    /\ \E s \in Sessions : \E k \in 1..Len(session_bookings[s]) :
          /\ appointments[session_bookings[s][k]].status = "cancelled"
          /\ appointments[session_bookings[s][k]].user_id = user_id[s]

\* C17: the entries of the bookings list of a session, as get_session_data
\* returns them, are not changed by a cancel_appointment, an
\* update_booking_details or a modify_appointment of this or another session.
C17_SnapshotsNotLive ==
    \A s, t \in Sessions, appointment_id \in ApptIds :
        /\ Entries(cancel_appointment(t, appointment_id).appointments,
                   session_bookings[s]) = get_session_data(s)
        /\ Entries(update_booking_details(t, appointment_id,
                                          Details("Birthday")).appointments,
                   session_bookings[s]) = get_session_data(s)
        /\ \A request \in ModifyRequests :
              Entries(modify_appointment(t, appointment_id, request[1], request[2],
                                         request[3]).appointments,
                      session_bookings[s]) = get_session_data(s)

\* C18: while the 19:00 slot of a day is booked and not yet past, a
\* book_appointment for the identical start time fails as unavailable, and
\* when 20:00 or 21:00 of that day is free the slot it suggests is one of
\* the two, and free.
C18_SuggestsLaterSameDay ==
    \A s \in Sessions : \A caller \in BookCallers(s) :
        LET o == book_appointment(s, Iso("sec", T19), 2, caller[1], caller[2],
                                  GeneralReservation)
            later == {t \in {Iso("sec", T20), Iso("sec", T21)} :
                         CheckAvailability(appointments, now, t)}
        IN  (/\ \E i \in Booked(appointments) :
                   appointments[i].start_time = Iso("sec", T19)
             /\ now <= T19
             /\ user_id[s] # 0 \/ Len(DigitsOf(caller[2])) >= PhoneLen) =>
                /\ o.answer.status = "failed"
                /\ o.answer.reason = "unavailable"
                /\ later # {} => o.answer.next_slot \in later

\* the second request for a booked 19:00 fails as unavailable whatever it
\* suggests
SecondRequestRefused ==
    \A s \in Sessions : \A caller \in BookCallers(s) :
        LET o == book_appointment(s, Iso("sec", T19), 2, caller[1], caller[2],
                                  GeneralReservation)
        IN  (/\ \E i \in Booked(appointments) :
                   appointments[i].start_time = Iso("sec", T19)
             /\ now <= T19
             /\ user_id[s] # 0 \/ Len(DigitsOf(caller[2])) >= PhoneLen) =>
                /\ o.answer.status = "failed"
                /\ o.answer.reason = "unavailable"
                /\ o.answer.next_slot = Iso("sec", T10next)
                      \/ ~CheckAvailability(appointments, now, Iso("sec", T10next))

\* the session can book: it is identified, or the caller gives a number of
\* at least 10 digits
CanBook(s, contact_number) ==
    user_id[s] # 0 \/ Len(DigitsOf(contact_number)) >= PhoneLen

\* C19: a book_appointment whose start time is in the past (it parses and
\* lies before the current time by more than the clock-skew tolerance, so
\* it fails the future-only check) fails with past_date, creates no
\* appointment, appends nothing to the bookings of the session, and the
\* slot it suggests, if any, is not earlier than the current time and is
\* available.
C19_PastBookingRejected ==
    \A s \in Sessions : \A caller \in BookCallers(s) :
        \A start_time \in {t \in ProbeTimes : t.fmt \in {"sec", "min", "Z"}
                                               /\ t.t < now - 120} :
            LET o == book_appointment(s, start_time, 2, caller[1], caller[2],
                                      GeneralReservation)
            IN  CanBook(s, caller[2]) =>
                  /\ o.answer.status = "failed"
                  /\ o.answer.reason = "past_date"
                  /\ o.appointments = appointments
                  /\ o.session_bookings = session_bookings
                  /\ o.answer.next_slot # NoTime =>
                        /\ o.answer.next_slot.t >= now
                        /\ CheckAvailability(appointments, now, o.answer.next_slot)

\* the same for the start times written without an offset that are more than
\* the clock-skew tolerance before the current time
PastBookingRejectedBeyondSkew ==
    \A s \in Sessions : \A caller \in BookCallers(s) :
        \A start_time \in {t \in ProbeTimes : /\ t.fmt \in {"sec", "min"}
                                               /\ Timestamp(t) < now - ClockSkew} :
            LET o == book_appointment(s, start_time, 2, caller[1], caller[2],
                                      GeneralReservation)
            IN  CanBook(s, caller[2]) =>
                  /\ o.answer.status = "failed"
                  /\ o.answer.reason = "past_date"
                  /\ o.appointments = appointments
                  /\ o.session_bookings = session_bookings
                  /\ o.answer.next_slot # NoTime =>
                        /\ o.answer.next_slot.t >= now
                        /\ CheckAvailability(appointments, now, o.answer.next_slot)

\* the same for every start time with an offset that is before the current
\* time: the call is left by the TypeError of the slot suggestion
PastBookingWithOffsetRaises ==
    \A s \in Sessions : \A caller \in BookCallers(s) :
        \A start_time \in {t \in ProbeTimes : t.fmt = "Z" /\ Timestamp(t) < now - ClockSkew} :
            CanBook(s, caller[2]) =>
                book_appointment(s, start_time, 2, caller[1], caller[2],
                                 GeneralReservation).answer.status = "raised"

\* a start time before the current time by no more than the clock-skew
\* tolerance passes the future-only check: when its hour is open and its
\* text is not booked, the booking completes
RecentPastAccepted ==
    \A s \in Sessions : \A caller \in BookCallers(s) :
        \A start_time \in {t \in ProbeTimes : /\ t.fmt \in {"sec", "min"}
                                               /\ Timestamp(t) < now
                                               /\ Timestamp(t) >= now - ClockSkew} :
            (/\ CanBook(s, caller[2])
             /\ HourOf(start_time.t) >= opening_hour
             /\ HourOf(start_time.t) < closing_hour
             /\ ~Existing(appointments, start_time)) =>
                book_appointment(s, start_time, 2, caller[1], caller[2],
                                 GeneralReservation).answer.status = "completed"

\* C20: send_summary is executed at most once per call, on every path
\* through the wait loop of the entrypoint.
C20_SummaryAtMostOnce ==
    \A s \in Sessions : call[s].summaries <= 1

\* an entrypoint has finished after both the end signal and the disconnect,
\* and its summary was sent
C20_Witness ==
    \E s \in Sessions :
        /\ call[s].at = "done"
        /\ call[s].end_event
        /\ ~call[s].connected
        /\ call[s].summaries = 1

\* C21: whenever a call ends, by the end signal or by the disconnect of the
\* room, in any order and at any point of the polling loop, the entrypoint
\* eventually runs send_summary.
C21_SummaryEventuallySent ==
    \A s \in Sessions :
        (call[s].end_event \/ ~call[s].connected) ~> (call[s].summaries >= 1)

\* an entrypoint finishes without a summary only when its test of the loop
\* condition found the room disconnected and the end signal raised
NoSummaryOnlyWhenBoth ==
    \A s \in Sessions :
        (call[s].at \in {"final_sleep", "done"} /\ call[s].summaries = 0) =>
            (call[s].end_event /\ ~call[s].connected)

\* C22: modify_appointment is atomic in effect.  With the storage calls of
\* the sessions interleaved, in no reachable state has a modify_appointment
\* cancelled its appointment without the replacement with the effective
\* values being stored as 'booked'.
C22_ModifyAtomic ==
    \A s \in Sessions :
        (/\ pc[s].at = "modify_create"
         /\ appointments[pc[s].appointment_id].status = "cancelled") =>
            \E j \in Booked(appointments) :
                /\ j # pc[s].appointment_id
                /\ appointments[j].user_id = user_id[s]
                /\ appointments[j].start_time = pc[s].final_time
                /\ appointments[j].num_people = pc[s].final_people
                /\ appointments[j].details
                      = GuestsPrefix(pc[s].final_people, pc[s].final_details)

\* C23: the ledger only grows.  No step removes an appointment record or
\* changes its id, its start time or its owner, and the only change of a
\* status is from 'booked' to 'cancelled': a cancelled appointment is never
\* booked again.
C23_LedgerMonotone ==
    [][/\ Len(appointments') >= Len(appointments)
       /\ \A i \in 1..Len(appointments) :
            /\ appointments'[i].id = appointments[i].id
            /\ appointments'[i].start_time = appointments[i].start_time
            /\ appointments'[i].user_id = appointments[i].user_id
            /\ \/ appointments'[i].status = appointments[i].status
               \/ /\ appointments[i].status = "booked"
                  /\ appointments'[i].status = "cancelled"]_vars

\* two appointments with different start times were created and both are
\* cancelled, the last of them by a cancel_appointment that just returned
C23_Witness ==
    /\ last.op = "cancel_appointment"
    /\ last.status = "completed"
    /\ Len(appointments) = 2
    /\ \A i \in 1..Len(appointments) : appointments[i].status = "cancelled"
    /\ appointments[1].start_time # appointments[2].start_time

\* the answers of the tool calls session s can make in the current state
ToolAnswers(s) ==
    {identify_user(s, caller[2], caller[1]).answer : caller \in IdentifyInputs(s)}
    \cup {book_appointment(s, request[1][1], request[1][2], request[2][1],
                           request[2][2], GeneralReservation).answer :
            request \in BookRequests \X BookCallers(s)}
    \cup {retrieve_appointments(s).answer}
    \cup {cancel_appointment(s, appointment_id).answer : appointment_id \in ApptIds}
    \cup {modify_appointment(s, request[1], request[2][1], request[2][2],
                             request[2][3]).answer :
            request \in ApptIds \X ModifyRequests}
    \cup {update_booking_details(s, appointment_id, Details("Birthday")).answer :
            appointment_id \in ApptIds}

\* C24: every tool call that publishes 'started' publishes exactly one
\* terminal event, 'completed' or 'failed', before it returns, on the early
\* returns for a session that is not identified as on every other path.
C24_StartedThenTerminal ==
    \A s \in Sessions : \A answer \in ToolAnswers(s) :
        PublishesStarted(answer) => TerminalEvents(answer) = 1

\* the calls that publish 'started' and no terminal event are
\* retrieve_appointments and modify_appointment in a session that is not
\* identified, and the calls an exception leaves
StartedThenTerminalWhenIdentified ==
    \A s \in Sessions : \A answer \in ToolAnswers(s) :
        (PublishesStarted(answer) /\ TerminalEvents(answer) # 1) =>
            \/ /\ answer.op \in {"retrieve_appointments", "modify_appointment"}
               /\ answer.reason = "auth_required"
               /\ user_id[s] = 0
            \/ answer.status = "raised"

\* C25: implicit identification is one transaction with the booking.  When a
\* book_appointment from a session that is not identified, giving a valid
\* phone number no guest has, is refused for its time (past_date or
\* unavailable), the store holds no new guest record afterwards.
C25_NoGuestWithoutBooking ==
    \A s \in Sessions, request \in BookRequestsIdent :
        \A name \in NamesGiven, contact_number \in PhonesGiven :
            LET o == book_appointment(s, request[1], request[2], name,
                                      contact_number, GeneralReservation)
            IN  (/\ user_id[s] = 0
                 /\ Len(DigitsOf(contact_number)) >= PhoneLen
                 /\ \A i \in 1..Len(users) :
                       users[i].contact_number # LastTenDigitsOf(contact_number)
                 /\ o.answer.status = "failed"
                 /\ o.answer.reason \in {"past_date", "unavailable"}) =>
                    o.users = users

\* a refused book_appointment adds at most the one guest of the number it was
\* given, keeps the id and the number of every guest, and adds no appointment
RefusedBookingAddsOnlyTheGuest ==
    \A s \in Sessions, request \in BookRequestsIdent :
        \A name \in NamesGiven, contact_number \in PhonesGiven :
            LET o == book_appointment(s, request[1], request[2], name,
                                      contact_number, GeneralReservation)
            IN  (user_id[s] = 0 /\ o.answer.status = "failed") =>
                    /\ o.appointments = appointments
                    /\ \A i \in 1..Len(users) :
                          /\ o.users[i].id = users[i].id
                          /\ o.users[i].contact_number = users[i].contact_number
                    /\ \/ Len(o.users) = Len(users)
                       \/ /\ Len(o.users) = Len(users) + 1
                          /\ o.users[Len(o.users)].contact_number
                                = LastTenDigitsOf(contact_number)

\* C26: a successful modify_appointment that gives no new_details stores for
\* the replacement the details the original has stored, so the details
\* survive any number of modifications.
C26_DetailsCarriedOver ==
    \A s \in Sessions, appointment_id \in ApptIds, request \in ModifyRequests :
        LET o == modify_appointment(s, appointment_id, request[1], request[2],
                                    NoDetails)
        IN  o.answer.status = "completed" =>
                o.appointments[o.answer.appt].details
                    = appointments[Original(user_id[s], appointment_id)].details

\* the replacement has the text of the original's details behind one more
\* "Guests: n. " prefix than the original has
DetailsGainOnePrefix ==
    \A s \in Sessions, appointment_id \in ApptIds, request \in ModifyRequests :
        LET o == modify_appointment(s, appointment_id, request[1], request[2],
                                    NoDetails)
            original == appointments[Original(user_id[s], appointment_id)]
            replacement == o.appointments[o.answer.appt]
        IN  o.answer.status = "completed" =>
                /\ replacement.details.text = original.details.text
                /\ replacement.details.guests
                      = <<replacement.num_people>> \o original.details.guests

\* the future-only check of db.check_availability (db.py 163-165) refuses
\* start_time
FailsFutureOnlyCheck(clock, start_time) ==
    Parses(start_time) /\ Timestamp(start_time) < clock - ClockSkew

\* what C27 asks of an answer given for start_time
ReasonDiagnoses(answer, start_time) ==
    /\ answer.reason \in {"unavailable", "new_slot_unavailable"} =>
          Existing(appointments, start_time)
    /\ answer.reason = "past_date" => FailsFutureOnlyCheck(now, start_time)

\* C27: the reason of a refusal tells its cause.  When book_appointment or
\* modify_appointment fails with 'unavailable' or 'new_slot_unavailable', a
\* 'booked' appointment with exactly the requested start time exists; when
\* it fails with 'past_date', the requested time failed the future-only
\* check of check_availability.
C27_ReasonTellsCause ==
    \A s \in Sessions :
        /\ \A request \in BookRequests : \A caller \in BookCallers(s) :
              LET o == book_appointment(s, request[1], request[2], caller[1],
                                        caller[2], GeneralReservation)
              IN  o.answer.status = "failed" =>
                      ReasonDiagnoses(o.answer, request[1])
        /\ \A appointment_id \in ApptIds, request \in ModifyRequests :
              LET o == modify_appointment(s, appointment_id, request[1],
                                          request[2], request[3])
              IN  o.answer.status = "failed" =>
                      ReasonDiagnoses(o.answer, request[1])

\* what the reasons do tell: the call was refused by check_availability, and
\* the reason is 'past_date' exactly when the time parses and lies before
\* the current time, with no tolerance
ReasonTellsIsPast ==
    \A s \in Sessions :
        /\ \A request \in BookRequests : \A caller \in BookCallers(s) :
              LET o == book_appointment(s, request[1], request[2], caller[1],
                                        caller[2], GeneralReservation)
              IN  o.answer.reason \in {"unavailable", "past_date"} =>
                    /\ ~CheckAvailability(appointments, now, request[1])
                    /\ o.answer.reason = "past_date" <=> IsPast(now, request[1])
        /\ \A appointment_id \in ApptIds, request \in ModifyRequests :
              LET o == modify_appointment(s, appointment_id, request[1],
                                          request[2], request[3])
              IN  o.answer.reason \in {"new_slot_unavailable", "past_date"} =>
                    /\ ~CheckAvailability(appointments, now, request[1])
                    /\ o.answer.reason = "past_date" <=> IsPast(now, request[1])

\* the appointments the calls of session s created, in creation order
CreatedBy(s) ==
    SelectSeq([i \in 1..Len(created) |-> i], LAMBDA i : created[i].by = s)

\* C28: at every point the bookings list of a session holds, in creation
\* order, every appointment the calls of the session created, the
\* replacements created by successful modify_appointment calls included.
C28_BookingsHoldAllCreated ==
    \A s \in Sessions : session_bookings[s] = CreatedBy(s)

\* the bookings list of a session holds, in creation order, appointments the
\* session created, each of them once
BookingsAmongCreated ==
    \A s \in Sessions :
        /\ \A k \in 1..Len(session_bookings[s]) :
              /\ session_bookings[s][k] \in 1..Len(created)
              /\ created[session_bookings[s][k]].by = s
        /\ \A k \in 1..(Len(session_bookings[s]) - 1) :
              session_bookings[s][k] < session_bookings[s][k + 1]

\* the answer and the ledger of a modify_appointment of session s that names
\* as new start time the start time its appointment has
SameTimeOutcomes(s, appointment_id) ==
    {modify_appointment(s, appointment_id,
                        appointments[Original(user_id[s], appointment_id)].start_time,
                        new_num_people, NoDetails) : new_num_people \in {0, 4}}

====
